---------------------------- MODULE Spec2Model ----------------------------
(***************************************************************************)
(* The ODeX analytics dashboard (src/app2.py) as a state machine.          *)
(*                                                                         *)
(* The script is executed top to bottom once per user interaction: it      *)
(* loads the four sheets through the memoized load_data, draws the sidebar *)
(* (navigation radio, quick stats), derives cust_stats and renders the one *)
(* view the radio selects.  A run is modelled by the steps                 *)
(*   RunLoad / RunLoadFail -> RunSidebar -> Render<View> -> Rerun          *)
(* Tables are sequences of rows, a row is a record keyed by column name.   *)
(* Numeric columns hold integers; a pandas float64 result is kept as an    *)
(* exact reduced fraction or as one of the IEEE values inf / -inf / nan.   *)
(***************************************************************************)
EXTENDS Integers, Sequences, FiniteSets, TLC

VARIABLES
    file,           \* the spreadsheet on disk (never written by the program)
    memo,           \* st.cache_data's entry for load_data(): NoValue or the tables
    pc,             \* position of the current script run
    tables,         \* the run's cust_master, trans_data, support_data, pricing_plans
    built,          \* the tables as load_data returned them to this run
    section,        \* value of the navigation radio in this run
    globals,        \* total_rev, total_cust, cust_stats of this run
    rendered,       \* what the selected view put on the page in this run
    shown,          \* page elements emitted so far in this run, in order
    prev            \* section and rendered values of the previous run, kept
                    \* while the radio stays on that run's view (else NoValue)

vars == <<file, memo, pc, tables, built, section, globals, rendered, shown, prev>>

NoValue == [none |-> TRUE]

-----------------------------------------------------------------------------
(* Bounds of the explored inputs *)

MaxTransRows == 2
MaxPricingRows == 2

\* Customer IDs C1, C2 (C3 occurs only in fixed tables), as their numbers
IDs == {1, 2}

\* Month cells as they stand in the sheet: <<year, month>>, over a year end:
\* 3, 2 and 0 months before February 2024 (January is in the example rows).
MonthCells == {<<2023, 11>>, <<2023, 12>>, <<2024, 2>>}

\* (module, transactions, revenue) of a generated transaction row
TransPayloads == {<<"ModA", 0, 0>>, <<"ModB", 2, 3>>}

DiscountValues == {0, 5, 10, 40, 41, 100}

Sections ==
    <<"Overview", "Revenue Analysis", "Pricing & Discounts",
      "Product Adoption", "Behavioral Insights">>

SectionSet == {Sections[i] : i \in 1..Len(Sections)}

-----------------------------------------------------------------------------
(* Sequence helpers *)

Range(s) == {s[i] : i \in 1..Len(s)}

RECURSIVE SumSeq(_)
SumSeq(s) == IF s = <<>> THEN 0 ELSE s[1] + SumSeq(Tail(s))

Column(t, c) == [i \in 1..Len(t) |-> t[i][c]]

Head_n(t, n) == IF Len(t) <= n THEN t ELSE SubSeq(t, 1, n)

\* The elements of a set of integers in ascending order.
RECURSIVE SortedSeq(_)
SortedSeq(S) ==
    IF S = {} THEN <<>>
    ELSE LET m == CHOOSE x \in S : \A y \in S : ~(y < x)
         IN  <<m>> \o SortedSeq(S \ {m})

Nunique(t, c) == Cardinality({t[i][c] : i \in 1..Len(t)})

-----------------------------------------------------------------------------
(* float64 results: exact fractions and the IEEE specials *)

RECURSIVE GCD(_, _)
GCD(a, b) == IF b = 0 THEN a ELSE GCD(b, a % b)

Abs(x) == IF x < 0 THEN -x ELSE x

Fin(n, d) ==
    LET g == GCD(Abs(n), Abs(d))
        s == IF d < 0 THEN -1 ELSE 1
    IN  [kind |-> "fin", num |-> s * (n \div g), den |-> s * (d \div g)]

Inf    == [kind |-> "inf",  num |-> 1,  den |-> 0]
NegInf == [kind |-> "-inf", num |-> -1, den |-> 0]
NaN    == [kind |-> "nan",  num |-> 0,  den |-> 0]

\* numpy true division a / b of two integers
FloatDiv(a, b) ==
    IF b # 0 THEN Fin(a, b)
    ELSE IF a > 0 THEN Inf
    ELSE IF a < 0 THEN NegInf
    ELSE NaN

\* float * integer
FloatMulInt(f, k) ==
    IF f.kind = "fin" THEN Fin(f.num * k, f.den)
    ELSE IF f.kind = "nan" \/ k = 0 THEN NaN
    ELSE IF (f.kind = "inf") = (k > 0) THEN Inf ELSE NegInf

FloatAdd(f, g) ==
    IF f.kind = "nan" \/ g.kind = "nan" THEN NaN
    ELSE IF f.kind = "fin" /\ g.kind = "fin"
         THEN Fin(f.num * g.den + g.num * f.den, f.den * g.den)
    ELSE IF f.kind = "fin" THEN g
    ELSE IF g.kind = "fin" THEN f
    ELSE IF f.kind = g.kind THEN f ELSE NaN

\* Series.sum() of floats: NaN entries are skipped
RECURSIVE FloatSumSkipNa(_)
FloatSumSkipNa(s) ==
    IF s = <<>> THEN Fin(0, 1)
    ELSE IF s[1].kind = "nan" THEN FloatSumSkipNa(Tail(s))
    ELSE FloatAdd(s[1], FloatSumSkipNa(Tail(s)))

\* f < g for floats; any comparison with NaN is false
FloatLess(f, g) ==
    IF f.kind = "nan" \/ g.kind = "nan" THEN FALSE
    ELSE IF f.kind = "-inf" THEN g.kind # "-inf"
    ELSE IF g.kind = "inf" THEN f.kind # "inf"
    ELSE IF f.kind = "inf" \/ g.kind = "-inf" THEN FALSE
    ELSE f.num * g.den < g.num * f.den

FloatLeq(f, g) ==
    /\ f.kind # "nan"
    /\ g.kind # "nan"
    /\ ~FloatLess(g, f)

\* An integer column value as a float
ToFloat(k) == Fin(k, 1)

\* Indices 1..Len(keys) ordered by float key, largest first; rows with equal
\* keys keep their input order and NaN keys go last (na_position='last').
RECURSIVE PlaceDesc(_, _, _)
PlaceDesc(i, order, keys) ==
    IF order = <<>> THEN <<i>>
    ELSE IF keys[order[1]].kind = "nan" /\ keys[i].kind # "nan"
         THEN <<i>> \o order
    ELSE IF FloatLess(keys[order[1]], keys[i]) THEN <<i>> \o order
    ELSE <<order[1]>> \o PlaceDesc(i, Tail(order), keys)

RECURSIVE OrderDescUpTo(_, _)
OrderDescUpTo(keys, n) ==
    IF n = 0 THEN <<>>
    ELSE PlaceDesc(n, OrderDescUpTo(keys, n - 1), keys)

\* DataFrame.sort_values(col, ascending=False) given the column as floats
SortDesc(t, keys) ==
    LET order == OrderDescUpTo(keys, Len(t))
    IN  [k \in 1..Len(t) |-> t[order[k]]]

-----------------------------------------------------------------------------
(* The spreadsheet and the tables explored *)

SheetNames == <<"Customer Master", "Transaction Data", "Support Data", "Pricing Plans">>

\* Module names in the order groupby('Module Used') yields them (sorted keys)
Modules == <<"ModA", "ModB">>

MasterRow(c, country, type) ==
    [CustomerID |-> c, Country |-> country, CustomerType |-> type]

TransRow(c, cell, mod, n, rev) ==
    [CustomerID |-> c, Month |-> cell, ModuleUsed |-> mod,
     NoOfTransactions |-> n, TotalRevenue |-> rev]

SupportRow(c, tickets, failed, hrs, payfail) ==
    [CustomerID |-> c, NoOfSupportTickets |-> tickets, FailedTransactions |-> failed,
     AvgResolutionTime |-> hrs, PaymentFailures |-> payfail]

PricingRow(c, std, con, disc) ==
    [CustomerID |-> c, StandardPrice |-> std, ContractedPrice |-> con,
     DiscountPct |-> disc]

MasterTables ==
    { <<MasterRow(1, "IN", "Shipper")>>,
      <<MasterRow(1, "IN", "Shipper"), MasterRow(2, "AE", "Forwarder")>>,
      <<MasterRow(2, "AE", "Forwarder"), MasterRow(1, "IN", "Shipper"),
        MasterRow(3, "IN", "Forwarder")>>,
      <<MasterRow(2, "AE", "Forwarder"), MasterRow(2, "AE", "Forwarder")>> }

DefaultMaster ==
    <<MasterRow(1, "IN", "Shipper"), MasterRow(2, "AE", "Forwarder")>>

TransRows ==
    { TransRow(c, m, p[1], p[2], p[3]) : c \in IDs, m \in MonthCells, p \in TransPayloads }

\* The spec's example scenario: (C1,Jan,ModA,5,500), (C1,Feb,ModB,3,300), (C2,Jan,ModA,2,100)
ExampleTrans ==
    << TransRow(1, <<2024, 1>>, "ModA", 5, 500),
       TransRow(1, <<2024, 2>>, "ModB", 3, 300),
       TransRow(2, <<2024, 1>>, "ModA", 2, 100) >>

TransTables ==
    UNION { [1..n -> TransRows] : n \in 1..MaxTransRows } \cup {ExampleTrans}

SupportTables ==
    { <<SupportRow(1, 3, 1, 4, 2), SupportRow(2, 1, 0, 6, 0)>>,
      <<SupportRow(2, 2, 2, 5, 1), SupportRow(3, 4, 0, 2, 3)>> }

DefaultSupport == <<SupportRow(1, 3, 1, 4, 2), SupportRow(2, 1, 0, 6, 0)>>

PricingRows == { PricingRow(c, 100, 100 - d, d) : c \in IDs, d \in DiscountValues }

PricingTables == UNION { [1..n -> PricingRows] : n \in 1..MaxPricingRows }

DefaultPricing == <<PricingRow(1, 120, 100, 17), PricingRow(2, 100, 60, 40)>>

Workbook(cm, td, sd, pp) ==
    [exists |-> TRUE,
     sheets |-> [n \in Range(SheetNames) |->
                    CASE n = "Customer Master" -> cm
                      [] n = "Transaction Data" -> td
                      [] n = "Support Data" -> sd
                      [] n = "Pricing Plans" -> pp]]

DefaultWorkbook == Workbook(DefaultMaster, ExampleTrans, DefaultSupport, DefaultPricing)

\* Well-formed workbooks: the transaction side and the pricing/support side
\* are varied one at a time around the default workbook.
GoodFiles ==
    { Workbook(cm, td, DefaultSupport, DefaultPricing) :
        cm \in MasterTables, td \in TransTables }
    \cup
    { Workbook(DefaultMaster, ExampleTrans, sd, pp) :
        sd \in SupportTables, pp \in PricingTables }

\* Workbooks on which load_data raises
BadFiles ==
    { [DefaultWorkbook EXCEPT !.exists = FALSE] }
    \cup
    { [DefaultWorkbook EXCEPT
         !.sheets = [n \in Range(SheetNames) \ {gone} |-> DefaultWorkbook.sheets[n]]] :
        gone \in Range(SheetNames) }
    \cup
    { Workbook(DefaultMaster,
               <<TransRow(1, <<2024, 13>>, "ModA", 1, 1)>>,
               DefaultSupport, DefaultPricing) }

-----------------------------------------------------------------------------
(* DATA LOADING *)

\* Whether a Month cell names a calendar month ("2024-13" does not)
IsMonthCell(cell) == cell[2] \in 1..12

\* pd.to_datetime of one Month cell: the first day of that month, counted in
\* months (year * 12 + month - 1)
ToDatetime(cell) == cell[1] * 12 + (cell[2] - 1)

\* pd.read_excel(file_path, sheet_name=name)
ReadExcel(f, name) ==
    IF ~f.exists THEN [ok |-> FALSE, err |-> "FileNotFoundError", table |-> <<>>]
    ELSE IF name \notin DOMAIN f.sheets
         THEN [ok |-> FALSE, err |-> "ValueError: Worksheet not found", table |-> <<>>]
    ELSE [ok |-> TRUE, err |-> "", table |-> f.sheets[name]]

\* The body of load_data: four reads in order, then the Month conversion.
load_data(f) ==
    LET cm == ReadExcel(f, "Customer Master")
        td == ReadExcel(f, "Transaction Data")
        sd == ReadExcel(f, "Support Data")
        pp == ReadExcel(f, "Pricing Plans")
        Raised(e) == [ok |-> FALSE, err |-> e, value |-> NoValue]
    IN  IF ~cm.ok THEN Raised(cm.err)
        ELSE IF ~td.ok THEN Raised(td.err)
        ELSE IF ~sd.ok THEN Raised(sd.err)
        ELSE IF ~pp.ok THEN Raised(pp.err)
        ELSE IF \E i \in 1..Len(td.table) : ~IsMonthCell(td.table[i].Month)
             THEN Raised("DateParseError")
        ELSE [ok |-> TRUE, err |-> "",
              value |-> [cust_master |-> cm.table,
                         trans_data |-> [i \in 1..Len(td.table) |->
                             [td.table[i] EXCEPT !.Month = ToDatetime(@)]],
                         support_data |-> sd.table,
                         pricing_plans |-> pp.table]]

\* @st.cache_data around load_data: the stored value if there is one, else
\* the function's result (an exception is not stored).
CachedLoad(m, f) ==
    IF m # NoValue THEN [ok |-> TRUE, err |-> "", value |-> m]
    ELSE load_data(f)

\* st.cache_data hands every caller its own copy of the stored value, so what
\* a run writes into its tables does not reach the stored value.
MemoAliased(m, runTables) == runTables
MemoAfterRun(m, runTables) == m

-----------------------------------------------------------------------------
(* Quick Stats and Global Calculations *)

RowsWhere(t, c, v) ==
    LET Test(r) == r[c] = v
    IN  SelectSeq(t, Test)

\* Distinct values of a sequence in order of first appearance
RECURSIVE Unique(_)
Unique(s) ==
    IF s = <<>> THEN <<>>
    ELSE LET init == Unique(SubSeq(s, 1, Len(s) - 1))
         IN  IF s[Len(s)] \in Range(init) THEN init ELSE Append(init, s[Len(s)])

\* trans_data['Total Revenue'].sum()
TotalRev(td) == SumSeq(Column(td, "TotalRevenue"))

\* cust_master['Customer ID'].nunique()
TotalCust(cm) == Nunique(cm, "CustomerID")

\* cust_stats['Total Revenue'] / cust_stats['No. of Transactions'], one row
Yield(rev, n) == FloatDiv(rev, n)

\* groupby('Customer ID').agg(sum, sum).reset_index() plus the Yield column:
\* one row per key, keys ascending
CustStatsFirstRow(td) ==
    LET ids == SortedSeq(Range(Column(td, "CustomerID")))
    IN  [k \in 1..Len(ids) |->
            LET r == RowsWhere(td, "CustomerID", ids[k])[1]
            IN  [CustomerID |-> ids[k],
                 NoOfTransactions |-> r.NoOfTransactions,
                 TotalRevenue |-> r.TotalRevenue,
                 Yield |-> Yield(r.TotalRevenue, r.NoOfTransactions)]]
CustStats(td) ==
    LET ids == SortedSeq(Range(Column(td, "CustomerID")))
    IN  [k \in 1..Len(ids) |->
            LET rows == RowsWhere(td, "CustomerID", ids[k])
                n == SumSeq(Column(rows, "NoOfTransactions"))
                rev == SumSeq(Column(rows, "TotalRevenue"))
            IN  [CustomerID |-> ids[k],
                 NoOfTransactions |-> n,
                 TotalRevenue |-> rev,
                 Yield |-> Yield(rev, n)]]

Globals(t) ==
    [total_rev |-> TotalRev(t.trans_data),
     total_cust |-> TotalCust(t.cust_master),
     cust_stats |-> CustStats(t.trans_data)]

\* DataFrame.merge(cust_stats, on='Customer ID'): inner join, left row order
RECURSIVE Merge(_, _)
Merge(left, cs) ==
    IF left = <<>> THEN <<>>
    ELSE LET hits == RowsWhere(cs, "CustomerID", left[1].CustomerID)
         IN  [j \in 1..Len(hits) |-> left[1] @@ hits[j]] \o Merge(Tail(left), cs)

Mean(col) == FloatDiv(SumSeq(col), Len(col))

FloatNeg(f) ==
    IF f.kind = "fin" THEN Fin(-f.num, f.den)
    ELSE IF f.kind = "inf" THEN NegInf
    ELSE IF f.kind = "-inf" THEN Inf
    ELSE NaN

\* float / positive integer
FloatDivInt(f, k) == IF f.kind = "fin" THEN Fin(f.num, f.den * k) ELSE f

\* (a / b) * 100
Percent(a, b) == FloatMulInt(FloatDiv(a, b), 100)

\* Series.corr (Pearson) of two integer columns, kept as the sign of r and r
\* squared; NaN when either column has no variance.
Corr(xs, ys) ==
    LET n == Len(xs)
        sx == SumSeq(xs)
        sy == SumSeq(ys)
        sxx == n * SumSeq([i \in 1..n |-> xs[i] * xs[i]]) - sx * sx
        syy == n * SumSeq([i \in 1..n |-> ys[i] * ys[i]]) - sy * sy
        sxy == n * SumSeq([i \in 1..n |-> xs[i] * ys[i]]) - sx * sy
    IN  IF n = 0 \/ sxx = 0 \/ syy = 0
        THEN [sign |-> 0, r2 |-> NaN]
        ELSE [sign |-> IF sxy > 0 THEN 1 ELSE IF sxy < 0 THEN -1 ELSE 0,
              r2 |-> Fin(sxy * sxy, sxx * syy)]

\* abs(correlation) > 0.3
CorrAbove03(c) == c.r2.kind = "fin" /\ 100 * c.r2.num > 9 * c.r2.den

-----------------------------------------------------------------------------
(* SECTION 1: OVERVIEW *)

\* pd.DateOffset(months=2)
ActiveMonths == 2

RECURSIVE MaxSeq(_)
MaxSeq(s) ==
    IF Len(s) = 1 THEN s[1]
    ELSE LET m == MaxSeq(Tail(s)) IN IF s[1] > m THEN s[1] ELSE m

\* last_date - pd.DateOffset(months=2)
ActiveCutoff(td) == MaxSeq(Column(td, "Month")) - ActiveMonths

\* len(trans_data[trans_data['Month'] >= active_cutoff]['Customer ID'].unique())
ActiveCountRows(td) ==
    LET cutoff == ActiveCutoff(td)
        Recent(r) == r.Month >= cutoff
    IN  Len(SelectSeq(td, Recent))
ActiveCountStrict(td) ==
    LET cutoff == ActiveCutoff(td)
        Recent(r) == r.Month > cutoff
    IN  Len(Unique(Column(SelectSeq(td, Recent), "CustomerID")))
ActiveCount(td) ==
    LET cutoff == ActiveCutoff(td)
        Recent(r) == r.Month >= cutoff
    IN  Len(Unique(Column(SelectSeq(td, Recent), "CustomerID")))

\* Series.value_counts().reset_index(): one row per value, most frequent first
ValueCounts(col) ==
    LET vals == Unique(col)
        rows == [k \in 1..Len(vals) |->
                    [Value |-> vals[k],
                     Count |-> Cardinality({i \in 1..Len(col) : col[i] = vals[k]})]]
    IN  SortDesc(rows, [k \in 1..Len(rows) |-> ToFloat(rows[k].Count)])

\* groupby(key)[val].sum().reset_index() for an integer key column
GroupSumInt(t, key, val) ==
    LET keys == SortedSeq(Range(Column(t, key)))
    IN  [k \in 1..Len(keys) |->
            [Key |-> keys[k], Sum |-> SumSeq(Column(RowsWhere(t, key, keys[k]), val))]]

OverviewView(t, g) ==
    LET active_count == ActiveCount(t.trans_data)
    IN  [total_cust |-> g.total_cust,
         active_count |-> active_count,
         dormant |-> g.total_cust - active_count,
         total_transactions |-> SumSeq(Column(t.trans_data, "NoOfTransactions")),
         country_data |-> ValueCounts(Column(t.cust_master, "Country")),
         fig_type |-> Column(t.cust_master, "CustomerType"),
         monthly_trend |-> GroupSumInt(t.trans_data, "Month", "NoOfTransactions")]

-----------------------------------------------------------------------------
(* SECTION 2: REVENUE ANALYSIS *)

\* head(10)
TopN == 10

\* The modules present in a table, in sorted order
ModulesIn(td) ==
    LET Present(m) == m \in Range(Column(td, "ModuleUsed"))
    IN  SelectSeq(Modules, Present)

\* cust_stats.sort_values('Total Revenue', ascending=False).head(n)
TopByRevenue(cs, n) ==
    Head_n(SortDesc(cs, [k \in 1..Len(cs) |-> ToFloat(cs[k].TotalRevenue)]), n)

\* (top_n['Total Revenue'].sum() / total_rev) * 100
TopShareNoScale(cs, total_rev, n) ==
    FloatDiv(SumSeq(Column(TopByRevenue(cs, n), "TotalRevenue")), total_rev)
TopShare(cs, total_rev, n) ==
    Percent(SumSeq(Column(TopByRevenue(cs, n), "TotalRevenue")), total_rev)

\* groupby('Module Used')['Total Revenue'].sum().sort_values(ascending=False)
ModuleRev(td) ==
    LET mods == ModulesIn(td)
        rows == [k \in 1..Len(mods) |->
                    [ModuleUsed |-> mods[k],
                     TotalRevenue |->
                        SumSeq(Column(RowsWhere(td, "ModuleUsed", mods[k]), "TotalRevenue"))]]
    IN  SortDesc(rows, [k \in 1..Len(rows) |-> ToFloat(rows[k].TotalRevenue)])

RevenueView(t, g) ==
    LET top_10 == TopByRevenue(g.cust_stats, TopN)
        module_rev == ModuleRev(t.trans_data)
        top5 == Head_n(module_rev, 5)
    IN  [total_rev |-> g.total_rev,
         avg_revenue |-> FloatDiv(g.total_rev, g.total_cust),
         avg_transaction |->
            FloatDiv(g.total_rev, SumSeq(Column(t.trans_data, "NoOfTransactions"))),
         top_10 |-> top_10,
         top_10_share |-> TopShare(g.cust_stats, g.total_rev, TopN),
         module_rev |-> module_rev,
         top_modules |-> [k \in 1..Len(top5) |->
                             [ModuleUsed |-> top5[k].ModuleUsed,
                              TotalRevenue |-> top5[k].TotalRevenue,
                              percentage |-> Percent(top5[k].TotalRevenue, g.total_rev)]],
         fig_yield |-> g.cust_stats]

-----------------------------------------------------------------------------
(* SECTION 3: PRICING & DISCOUNTS *)

DiscountBins == <<0, 10, 20, 30, 40, 100>>

DiscountLabels == <<"0-10%", "10-20%", "20-30%", "30-40%", "40%+">>

\* pd.cut(x, bins, labels) with its defaults right=True, include_lowest=False:
\* bin k is (bins[k], bins[k+1]]; a value in no bin is NaN
Cut(x, bins, labels) ==
    IF \E k \in 1..Len(labels) : bins[k] < x /\ x <= bins[k + 1]
    THEN labels[CHOOSE k \in 1..Len(labels) : bins[k] < x /\ x <= bins[k + 1]]
    ELSE "NaN"

\* pricing_plans['Discount Range'] = pd.cut(pricing_plans['Discount %'], ...)
WithDiscountRange(pp) ==
    [i \in 1..Len(pp) |->
        [CustomerID |-> pp[i].CustomerID,
         StandardPrice |-> pp[i].StandardPrice,
         ContractedPrice |-> pp[i].ContractedPrice,
         DiscountPct |-> pp[i].DiscountPct,
         DiscountRange |-> Cut(pp[i].DiscountPct, DiscountBins, DiscountLabels)]]

\* value_counts() of the categorical column, sort_index(), reset_index(): one
\* row per category in category order, missing values not counted
DiscountCounts(pp) ==
    [k \in 1..Len(DiscountLabels) |->
        [Range |-> DiscountLabels[k],
         Count |-> Cardinality({i \in 1..Len(pp) : pp[i].DiscountRange = DiscountLabels[k]})]]

PricingView(t, g) ==
    LET pp == t.pricing_plans
        avg_standard == Mean(Column(pp, "StandardPrice"))
        avg_contracted == Mean(Column(pp, "ContractedPrice"))
        pricing_merged == Merge(pp, g.cust_stats)
        correlation == Corr(Column(pricing_merged, "DiscountPct"),
                            Column(pricing_merged, "NoOfTransactions"))
    IN  [avg_standard |-> avg_standard,
         avg_contracted |-> avg_contracted,
         avg_gap |-> FloatAdd(avg_standard, FloatNeg(avg_contracted)),
         rev_lost |-> SumSeq([i \in 1..Len(pricing_merged) |->
                        (pricing_merged[i].StandardPrice - pricing_merged[i].ContractedPrice)
                            * pricing_merged[i].NoOfTransactions]),
         discount_counts |-> DiscountCounts(WithDiscountRange(pp)),
         correlation |-> correlation,
         fig_corr |-> pricing_merged,
         corr_info |-> CorrAbove03(correlation)]

-----------------------------------------------------------------------------
(* SECTION 4: PRODUCT ADOPTION *)

\* groupby('Module Used')['Customer ID'].nunique() / total_cust * 100,
\* sorted by 'Adoption %' descending
Adoption(td, total_cust) ==
    LET mods == ModulesIn(td)
        rows == [k \in 1..Len(mods) |->
                    [Module |-> mods[k],
                     AdoptionPct |->
                        Percent(Nunique(RowsWhere(td, "ModuleUsed", mods[k]), "CustomerID"),
                                total_cust)]]
    IN  SortDesc(rows, [k \in 1..Len(rows) |-> rows[k].AdoptionPct])

\* groupby('Module Used').agg(sum, sum).reset_index()
UsageRev(td) ==
    LET mods == ModulesIn(td)
    IN  [k \in 1..Len(mods) |->
            LET rows == RowsWhere(td, "ModuleUsed", mods[k])
            IN  [ModuleUsed |-> mods[k],
                 NoOfTransactions |-> SumSeq(Column(rows, "NoOfTransactions")),
                 TotalRevenue |-> SumSeq(Column(rows, "TotalRevenue"))]]

AdoptionView(t, g) ==
    LET adoption == Adoption(t.trans_data, g.total_cust)
    IN  [top_module |-> adoption[1],
         total_modules |-> Len(adoption),
         avg_adoption |->
            FloatDivInt(FloatSumSkipNa(Column(adoption, "AdoptionPct")), Len(adoption)),
         fig_adopt |-> adoption,
         fig_comp |-> UsageRev(t.trans_data)]

-----------------------------------------------------------------------------
(* SECTION 5: BEHAVIORAL INSIGHTS *)

\* head(10) of the support ranking, nlargest(15, 'Payment Loss')
TopSupportN == 10
TopLosersN == 15

\* behavior['Payment Loss'] = behavior['Yield'] * behavior['Payment Failures']
WithPaymentLoss(behavior) ==
    [i \in 1..Len(behavior) |->
        behavior[i] @@
        [PaymentLoss |-> FloatMulInt(behavior[i].Yield, behavior[i].PaymentFailures)]]

BehaviorView(t, g) ==
    LET sd == t.support_data
        merged == Merge(sd, g.cust_stats)
        behavior == WithPaymentLoss(merged)
        losses == Column(behavior, "PaymentLoss")
        ranked == Head_n(SortDesc(behavior, losses), TopLosersN)
    IN  [total_tickets |-> SumSeq(Column(sd, "NoOfSupportTickets")),
         total_failures |-> SumSeq(Column(sd, "FailedTransactions")),
         avg_resolution |-> Mean(Column(sd, "AvgResolutionTime")),
         payment_failures |-> SumSeq(Column(sd, "PaymentFailures")),
         top_support |->
            Head_n(SortDesc(sd, [k \in 1..Len(sd) |-> ToFloat(sd[k].NoOfSupportTickets)]),
                   TopSupportN),
         corr_support |-> Corr(Column(merged, "NoOfSupportTickets"),
                               Column(merged, "NoOfTransactions")),
         corr_failed |-> Corr(Column(merged, "FailedTransactions"),
                              Column(merged, "NoOfTransactions")),
         total_loss |-> FloatSumSkipNa(losses),
         top_losers |-> [k \in 1..Len(ranked) |->
                            [CustomerID |-> ranked[k].CustomerID,
                             PaymentLoss |-> ranked[k].PaymentLoss,
                             PaymentFailures |-> ranked[k].PaymentFailures]],
         corr_resolution |-> Corr(Column(merged, "AvgResolutionTime"),
                                  Column(merged, "NoOfTransactions")),
         fig_q5 |-> behavior]

-----------------------------------------------------------------------------
(* One script run *)

Init ==
    /\ file \in GoodFiles \cup BadFiles
    /\ memo = NoValue
    /\ pc = "start"
    /\ tables = NoValue
    /\ built = NoValue
    /\ section = Sections[1]
    /\ globals = NoValue
    /\ rendered = NoValue
    /\ shown = <<>>
    /\ prev = NoValue

\* Lines 63-64: load_data() returned
RunLoad ==
    /\ pc = "start"
    /\ LET r == CachedLoad(memo, file)
       IN  /\ r.ok
           /\ memo' = r.value
           /\ tables' = r.value
           /\ built' = r.value
    /\ pc' = "sidebar"
    /\ UNCHANGED <<file, section, globals, rendered, shown, prev>>

\* Where the script goes on after st.error in the except branch: st.stop()
\* ends the run
AfterLoadErrorNoStop == "sidebar"
AfterLoadError == "stopped"

\* Lines 65-67: load_data() raised
RunLoadFail ==
    /\ pc = "start"
    /\ ~CachedLoad(memo, file).ok
    /\ shown' = Append(shown, "error")
    /\ pc' = AfterLoadError
    /\ UNCHANGED <<file, memo, tables, built, section, globals, rendered, prev>>

\* Lines 70-92: sidebar navigation, quick stats, global calculations.  With
\* the tables unbound the radio is drawn and line 81 raises NameError.
RunSidebar ==
    /\ pc = "sidebar"
    /\ IF tables = NoValue
       THEN /\ shown' = Append(shown, "navigation")
            /\ pc' = "crashed"
            /\ UNCHANGED globals
       ELSE /\ shown' = shown \o <<"navigation", "quick_stats">>
            /\ globals' = Globals(tables)
            /\ pc' = "view"
    /\ UNCHANGED <<file, memo, tables, built, section, rendered, prev>>

\* A view that only reads the tables, followed by the footer
RenderReadOnly(name, view) ==
    /\ pc = "view"
    /\ section = name
    /\ rendered' = view
    /\ shown' = shown \o <<name, "footer">>
    /\ pc' = "done"
    /\ UNCHANGED <<file, memo, tables, built, section, globals, prev>>

RenderOverview == RenderReadOnly("Overview", OverviewView(tables, globals))

RenderRevenue == RenderReadOnly("Revenue Analysis", RevenueView(tables, globals))

RenderAdoption == RenderReadOnly("Product Adoption", AdoptionView(tables, globals))

RenderBehavior == RenderReadOnly("Behavioral Insights", BehaviorView(tables, globals))

\* Lines 248-330: the view assigns the 'Discount Range' column of pricing_plans
RenderPricing ==
    /\ pc = "view"
    /\ section = "Pricing & Discounts"
    /\ rendered' = PricingView(tables, globals)
    /\ tables' = [tables EXCEPT !.pricing_plans = WithDiscountRange(@)]
    /\ memo' = MemoAfterRun(memo, tables')
    /\ shown' = shown \o <<section, "footer">>
    /\ pc' = "done"
    /\ UNCHANGED <<file, built, section, globals, prev>>

\* The user picks a view in the radio (or the same one again): the script
\* runs again from the top
Select ==
    /\ pc = "done"
    /\ \E s \in SectionSet :
          /\ section' = s
          /\ prev' = IF s = section
                     THEN [section |-> section, rendered |-> rendered]
                     ELSE NoValue
    /\ pc' = "start"
    /\ tables' = NoValue
    /\ built' = NoValue
    /\ globals' = NoValue
    /\ rendered' = NoValue
    /\ shown' = <<>>
    /\ UNCHANGED <<file, memo>>

\* After a halted run the page holds only the error; a rerun starts over
RerunAfterStop ==
    /\ pc = "stopped"
    /\ pc' = "start"
    /\ shown' = <<>>
    /\ UNCHANGED <<file, memo, tables, built, section, globals, rendered, prev>>

Next ==
    \/ RunLoad
    \/ RunLoadFail
    \/ RunSidebar
    \/ RenderOverview
    \/ RenderRevenue
    \/ RenderPricing
    \/ RenderAdoption
    \/ RenderBehavior
    \/ Select
    \/ RerunAfterStop

Spec == Init /\ [][Next]_vars

-----------------------------------------------------------------------------
(* Properties *)

ViewDone(name) == pc = "done" /\ section = name

IdSet(t) == Range(Column(t, "CustomerID"))

\* Sum of f over a finite set of indices
RECURSIVE SumOver(_, _)
SumOver(S, f) ==
    IF S = {} THEN 0
    ELSE LET i == CHOOSE j \in S : TRUE IN f[i] + SumOver(S \ {i}, f)

\* C1: when load_data raises, the run shows the error and halts: no navigation
\* control, sidebar metric or view is reached, in any state of such a run.
C1_LoadFailureHalts ==
    /\ ~CachedLoad(memo, file).ok =>
          /\ pc \in {"start", "stopped"}
          /\ Range(shown) \subseteq {"error"}
          /\ tables = NoValue
          /\ globals = NoValue
          /\ rendered = NoValue
    /\ pc = "stopped" => shown = <<"error">>

\* A run halted on a workbook whose 'Pricing Plans' sheet is absent
C1_Witness ==
    /\ pc = "stopped"
    /\ shown = <<"error">>
    /\ file.exists
    /\ "Pricing Plans" \notin DOMAIN file.sheets

\* C2: when a run ends, the four loaded tables have exactly the columns and
\* rows load_data returned, and Customer Stats is as derived from them.
C2_NoEntityMutated ==
    pc = "done" =>
        /\ tables = built
        /\ \A n \in DOMAIN tables : DOMAIN tables[n][1] = DOMAIN built[n][1]
        /\ globals.cust_stats = CustStats(built.trans_data)

\* C3: a view selected twice in a row renders the same values both times.
C3_Idempotent ==
    (pc = "done" /\ prev # NoValue /\ prev.section = section) =>
        rendered = prev.rendered

\* 'Pricing & Discounts' rendered twice in a row, with a non-empty scatter
C3_Witness ==
    /\ ViewDone("Pricing & Discounts")
    /\ prev # NoValue
    /\ prev.section = section
    /\ Len(rendered.fig_corr) > 0
    /\ \E k \in 1..Len(rendered.discount_counts) : rendered.discount_counts[k].Count > 0

\* C4: Customer Stats has exactly one row per distinct Customer ID of
\* Transaction Data, carrying that customer's summed transactions and revenue
\* and Yield = summed revenue / summed transactions (the IEEE quotient: not a
\* finite number when the divisor is 0); the example rows give C1 -> 8, 800,
\* 100 and C2 -> 2, 100, 50.
C4_CustStats ==
    globals # NoValue =>
        LET td == tables.trans_data
            cs == globals.cust_stats
            Of(c) == {i \in 1..Len(td) : td[i].CustomerID = c}
        IN  /\ IdSet(cs) = IdSet(td)
            /\ Len(cs) = Cardinality(IdSet(td))
            /\ \A k \in 1..Len(cs) :
                  LET n == SumOver(Of(cs[k].CustomerID), Column(td, "NoOfTransactions"))
                      rev == SumOver(Of(cs[k].CustomerID), Column(td, "TotalRevenue"))
                      y == cs[k].Yield
                  IN  /\ cs[k].NoOfTransactions = n
                      /\ cs[k].TotalRevenue = rev
                      /\ n # 0 => y.kind = "fin" /\ y.num * n = rev * y.den
                      /\ n = 0 => y.kind # "fin"
            /\ file.sheets["Transaction Data"] = ExampleTrans =>
                  cs = << [CustomerID |-> 1, NoOfTransactions |-> 8,
                           TotalRevenue |-> 800, Yield |-> Fin(100, 1)],
                          [CustomerID |-> 2, NoOfTransactions |-> 2,
                           TotalRevenue |-> 100, Yield |-> Fin(50, 1)] >>

\* Customer Stats derived from the example scenario
C4_Witness ==
    /\ globals # NoValue
    /\ file.sheets["Transaction Data"] = ExampleTrans
    /\ Len(globals.cust_stats) = 2
    /\ globals.cust_stats[1].Yield = Fin(100, 1)

\* C5: every customer with a row in Customer Stats has a non-zero summed
\* No. of Transactions, so Yield never divides by zero.
C5_NoZeroDivisor ==
    globals # NoValue =>
        \A k \in 1..Len(globals.cust_stats) :
            /\ globals.cust_stats[k].NoOfTransactions # 0
            /\ globals.cust_stats[k].Yield.kind = "fin"

DiscountsInRange(pp) == \A i \in 1..Len(pp) : pp[i].DiscountPct \in 0..100

\* C6: with every Discount % in 0..100, each Pricing Plans row falls in
\* exactly one bucket: the five counts sum to the number of rows.
C6_BucketsExhaustive ==
    (ViewDone("Pricing & Discounts") /\ DiscountsInRange(built.pricing_plans)) =>
        SumSeq(Column(rendered.discount_counts, "Count")) = Len(built.pricing_plans)

\* C7: bucket k counts the rows with bins[k] <= Discount % < bins[k+1]
\* (<= 100 for the last), the buckets reported in ascending order.
C7_HalfOpenBuckets ==
    ViewDone("Pricing & Discounts") =>
        LET pp == built.pricing_plans
            dc == rendered.discount_counts
        IN  /\ Column(dc, "Range") = DiscountLabels
            /\ \A k \in 1..Len(DiscountLabels) :
                  dc[k].Count =
                     Cardinality({i \in 1..Len(pp) :
                         /\ DiscountBins[k] <= pp[i].DiscountPct
                         /\ \/ pp[i].DiscountPct < DiscountBins[k + 1]
                            \/ k = Len(DiscountLabels)
                               /\ pp[i].DiscountPct = DiscountBins[k + 1]})

\* Calendar months from sheet cell b to sheet cell a
MonthsFrom(b, a) == (a[1] - b[1]) * 12 + (a[2] - b[2])

SharesOf(g) == [n \in 0..(Len(g.cust_stats) + 1) |-> TopShare(g.cust_stats, g.total_rev, n)]

C10_CountsInRange ==
    (ViewDone("Overview") /\ IdSet(tables.trans_data) \subseteq IdSet(tables.cust_master)) =>
        /\ rendered.total_cust = Cardinality(IdSet(tables.cust_master))
        /\ 0 <= rendered.active_count
        /\ rendered.active_count <= rendered.total_cust
        /\ rendered.dormant >= 0

\* Consistent tables in which every customer is active: dormant is 0
C10_Witness ==
    /\ ViewDone("Overview")
    /\ IdSet(tables.trans_data) \subseteq IdSet(tables.cust_master)
    /\ rendered.total_cust = 2
    /\ rendered.active_count = 2
    /\ rendered.dormant = 0

=============================================================================
